---- MODULE Spec2Model ----
(***************************************************************************)
(* Model of src/components/thread/visualization.tsx: the descriptor        *)
(* extractor (extractVisualizationData) and the render dispatcher          *)
(* (Visualization with its sub-renderers ImageVisualization,               *)
(* TextVisualization and ChartVisualization).                              *)
(*                                                                         *)
(* JavaScript values are tagged records.  A scalar is [t, n, s]: t is the  *)
(* JavaScript type ("undefined", "null", "number", "NaN", "string",        *)
(* "object"), n the numeric value and s the string value.  Numbers are     *)
(* fixed-point, in hundredths (5 is 500), so that the synthesized y values *)
(* of the summary fallback are exact.                                      *)
(***************************************************************************)
EXTENDS Integers, Sequences, FiniteSets

VARIABLES caller, content, state, data, sqlResult, plan, pc

vars == <<caller, content, state, data, sqlResult, plan, pc>>

(***************************************************************************)
(* Bounds of the model.                                                    *)
(***************************************************************************)
\* longest rows sequence (sqlResult) handed to Visualization
MaxRows == 2
\* longest data_summary.x_data_sample
MaxSample == 2
\* most prose tokens that precede an embedded JSON fragment in content
MaxPad == 1

(***************************************************************************)
(* JavaScript scalars.                                                     *)
(***************************************************************************)
Undef == [t |-> "undefined", n |-> 0, s |-> ""]
Null == [t |-> "null", n |-> 0, s |-> ""]
NaN == [t |-> "NaN", n |-> 0, s |-> ""]
Num(k) == [t |-> "number", n |-> k * 100, s |-> ""]
Fixed(h) == [t |-> "number", n |-> h, s |-> ""]
Str(x) == [t |-> "string", n |-> 0, s |-> x]
\* a truthy value that is neither a string nor a number (an object literal)
Obj == [t |-> "object", n |-> 0, s |-> ""]

\* JavaScript truthiness (what ||, && and if test)
Truthy(v) ==
  CASE v.t = "number" -> v.n # 0
    [] v.t = "string" -> v.s # ""
    [] v.t = "object" -> TRUE
    [] v.t = "array" -> TRUE
    [] OTHER -> FALSE

\* a || b
Or(a, b) == IF Truthy(a) THEN a ELSE b

\* v != null (loose inequality: false for null and undefined only)
NotNullish(v) == v.t \notin {"undefined", "null"}

\* the decimal strings the model's inputs use, with the number each denotes
NumericStrings == {"0", "5", "7"}
StrToNum(x) ==
  CASE x = "0" -> 0
    [] x = "5" -> 5
    [] x = "7" -> 7
    [] OTHER -> 0

\* Number(v)
Number(v) ==
  CASE v.t = "number" -> v
    [] v.t = "null" -> Num(0)
    [] v.t = "string" ->
         IF v.s = "" THEN Num(0)
         ELSE IF v.s \in NumericStrings THEN Num(StrToNum(v.s))
         ELSE NaN
    [] OTHER -> NaN

\* a - b  (both operands go through Number)
Minus(a, b) ==
  LET x == Number(a)
      y == Number(b)
  IN IF x.t = "number" /\ y.t = "number" THEN Fixed(x.n - y.n) ELSE NaN

\* String(v)
String(v) ==
  CASE v.t = "string" -> v.s
    [] v.t = "number" ->
         IF v.n % 100 = 0 /\ v.n >= 0 /\ v.n \div 100 < 10
         THEN SubSeq("0123456789", v.n \div 100 + 1, v.n \div 100 + 1)
         ELSE "<number>"
    [] v.t = "NaN" -> "NaN"
    [] v.t = "null" -> "null"
    [] v.t = "undefined" -> "undefined"
    [] OTHER -> "[object Object]"

\* s.startsWith(p)
StartsWith(x, p) == Len(x) >= Len(p) /\ SubSeq(x, 1, Len(p)) = p

(***************************************************************************)
(* VisualizationData and its parts.  An absent part has t = "undefined"    *)
(* and every field Undef, which is what optional chaining (a?.b) reads     *)
(* from it.                                                                *)
(***************************************************************************)
NoSpec ==
  [t |-> "undefined", chart_type |-> Undef, x_column |-> Undef,
   y_column |-> Undef, title |-> Undef]

\* x_data_sample: t is "array", "undefined", or "object" (a truthy
\* non-array, which has no forEach)
NoSample == [t |-> "undefined", items |-> <<>>]
Sample(xs) == [t |-> "array", items |-> xs]

\* y_range: lo and hi are y_range[0] and y_range[1]
NoRange == [t |-> "undefined", lo |-> Undef, hi |-> Undef]
Range(lo, hi) == [t |-> "array", lo |-> lo, hi |-> hi]

NoSummary ==
  [t |-> "undefined", x_data_sample |-> NoSample, y_range |-> NoRange,
   y_average |-> Undef, row_count |-> Undef]

\* an object with no properties set
EmptyViz ==
  [t |-> "object", type |-> Undef, chart_type |-> Undef, x_column |-> Undef,
   y_column |-> Undef, title |-> Undef, text |-> Undef, spec |-> NoSpec,
   data_summary |-> NoSummary, image |-> Undef, mimeType |-> Undef]

NoViz == [EmptyViz EXCEPT !.t = "undefined"]
NullViz == [EmptyViz EXCEPT !.t = "null"]

\* rows: t is "array", "undefined", "null", or "object" (a truthy value
\* that is not a sequence); a row is an object (f: its columns) or null
NoRows == [t |-> "undefined", items |-> <<>>]
Rows(rs) == [t |-> "array", items |-> rs]
NotRows(tag) == [t |-> tag, items |-> <<>>]
Row(f) == [t |-> "object", f |-> f]
NullRow == [t |-> "null", f |-> [c \in {} |-> Undef]]

\* obj[key]
GetProp(f, key) == IF key \in DOMAIN f THEN f[key] ELSE Undef

(***************************************************************************)
(* Render plans: which sub-renderer Visualization invoked (renderer) and   *)
(* what came out (out): "null" (nothing), "image", "text", "chart",        *)
(* "nodata" and "unsupported" (the two placeholders), or "throw" (a        *)
(* TypeError escaped).                                                     *)
(***************************************************************************)
NullPlan ==
  [renderer |-> "none", out |-> "null", url |-> "", title |-> Undef,
   text |-> Undef, chartType |-> Undef, chartData |-> <<>>, pieData |-> <<>>,
   source |-> "none"]

Throw(r) == [NullPlan EXCEPT !.renderer = r, !.out = "throw"]

\* ImageVisualization without the startsWith("data:") test
ImageVisualizationAlwaysPrefix(d) ==
  IF ~Truthy(d.image) THEN [NullPlan EXCEPT !.renderer = "image"]
  ELSE IF d.image.t # "string" THEN Throw("image")
  ELSE [NullPlan EXCEPT
          !.renderer = "image",
          !.out = "image",
          !.title = d.title,
          !.url = "data:" \o String(Or(d.mimeType, Str("image/png")))
                    \o ";base64," \o d.image.s]

\* ImageVisualization
ImageVisualization(d) ==
  IF ~Truthy(d.image) THEN [NullPlan EXCEPT !.renderer = "image"]
  ELSE IF d.image.t # "string" THEN Throw("image")
  ELSE [NullPlan EXCEPT
          !.renderer = "image",
          !.out = "image",
          !.title = d.title,
          !.url = IF StartsWith(d.image.s, "data:")
                  THEN d.image.s
                  ELSE "data:" \o String(Or(d.mimeType, Str("image/png")))
                         \o ";base64," \o d.image.s]

\* TextVisualization
TextVisualization(d) ==
  IF ~Truthy(d.text) THEN [NullPlan EXCEPT !.renderer = "text"]
  ELSE [NullPlan EXCEPT !.renderer = "text", !.out = "text",
                        !.title = d.title, !.text = d.text]

\* the pie case of renderChart: one {name, value} per chart row
PieData(chartData, xColumn, yColumn) ==
  [i \in 1..Len(chartData) |->
     [name |-> String(Or(GetProp(chartData[i], String(xColumn)), Str("Unknown"))),
      value |-> Number(Or(GetProp(chartData[i], String(yColumn)), Num(0)))]]

\* v.toFixed(2) is callable on numbers (NaN included) only
HasToFixed(v) == v.t \in {"number", "NaN"}

\* the data_summary footer of ChartVisualization raises a TypeError when
\* y_range is truthy and y_range[0] or y_range[1] has no toFixed
FooterThrows(d) ==
  /\ d.data_summary.t = "object"
  /\ Truthy(d.data_summary.y_range)
  /\ ~(HasToFixed(d.data_summary.y_range.lo) /\ HasToFixed(d.data_summary.y_range.hi))

\* ChartVisualization; source records which fallback of Visualization built
\* chartData ("rows" or "summary") and has no counterpart in the code
ChartVisualization(d, chartData, source) ==
  LET chartType == Or(Or(d.chart_type, d.spec.chart_type), Str("bar"))
      xColumn == Or(Or(d.x_column, d.spec.x_column), Str("x"))
      yColumn == Or(Or(d.y_column, d.spec.y_column), Str("y"))
      title == Or(Or(d.title, d.spec.title), Str("Chart"))
      base == [NullPlan EXCEPT !.renderer = "chart", !.source = source]
  IN IF Len(chartData) = 0 THEN [base EXCEPT !.out = "nodata"]
     ELSE IF FooterThrows(d) THEN Throw("chart")
     ELSE [base EXCEPT
             !.out = IF chartType \in {Str("bar"), Str("line"), Str("pie"), Str("scatter")}
                     THEN "chart" ELSE "unsupported",
             !.title = title,
             !.chartType = chartType,
             !.chartData = chartData,
             !.pieData = IF chartType = Str("pie")
                         THEN PieData(chartData, xColumn, yColumn)
                         ELSE <<>>]

\* a + b: numeric addition, or string concatenation when a is not a number
Plus(a, b) ==
  IF a.t = "number" /\ b.t = "number" THEN Fixed(a.n + b.n)
  ELSE IF a.t \in {"string", "object"} THEN Str(String(a) \o String(b))
  ELSE NaN

\* (Math.random() - 0.5) * width * 0.3, with Math.random() = r / 10
Noise(r, width) ==
  IF width.t = "number" THEN Fixed((3 * (r - 5) * width.n) \div 100) ELSE NaN

\* the object literal { [xk]: xv, [yk]: yv }: a later key overrides an equal
\* earlier one
Point(xk, xv, yk, yv) == [k \in {xk, yk} |-> IF k = yk THEN yv ELSE xv]

\* the authoritative rows without the "|| 0" after Number
RowsChartDataNoFallback(rows, xColumn, yColumn) ==
  LET Keep(row) == /\ NotNullish(GetProp(row.f, String(xColumn)))
                   /\ NotNullish(GetProp(row.f, String(yColumn)))
      kept == SelectSeq(rows, Keep)
  IN [i \in 1..Len(kept) |->
        Point(String(xColumn), GetProp(kept[i].f, String(xColumn)),
              String(yColumn), Number(GetProp(kept[i].f, String(yColumn))))]

\* the authoritative rows of Visualization: filter, then map
RowsChartData(rows, xColumn, yColumn) ==
  LET Keep(row) == /\ NotNullish(GetProp(row.f, String(xColumn)))
                   /\ NotNullish(GetProp(row.f, String(yColumn)))
      kept == SelectSeq(rows, Keep)
  IN [i \in 1..Len(kept) |->
        Point(String(xColumn), GetProp(kept[i].f, String(xColumn)),
              String(yColumn),
              Or(Number(GetProp(kept[i].f, String(yColumn))), Num(0)))]

\* the summary fallback of Visualization; rnd[i] is the value of the i-th
\* call of Math.random(), in tenths
SummaryChartData(d, rnd) ==
  LET xSample == Or(d.data_summary.x_data_sample, Sample(<<>>))
      yRange == Or(d.data_summary.y_range, Range(Num(0), Num(100)))
      yAvg == Or(d.data_summary.y_average, Num(50))
  IN [i \in 1..Len(xSample.items) |->
        Point(String(Or(Or(d.x_column, d.spec.x_column), Str("x"))),
              xSample.items[i],
              String(Or(Or(d.y_column, d.spec.y_column), Str("y"))),
              Plus(yAvg, Noise(rnd[i], Minus(yRange.hi, yRange.lo))))]

\* the tail of Visualization: the text branch and the final return null
TextBranch(d, vizType) ==
  IF vizType = Str("text") \/ Truthy(d.text) THEN TextVisualization(d)
  ELSE NullPlan

\* the summary fallback branch without its chartData.length > 0 test
SummaryBranchNoLengthCheck(d, vizType, rnd) ==
  IF Truthy(d.data_summary.x_data_sample)
  THEN IF d.data_summary.x_data_sample.t # "array" THEN Throw("none")
       ELSE ChartVisualization(d, SummaryChartData(d, rnd), "summary")
  ELSE TextBranch(d, vizType)

\* the summary fallback branch of Visualization and what follows it
SummaryBranch(d, vizType, rnd) ==
  IF Truthy(d.data_summary.x_data_sample)
  THEN IF d.data_summary.x_data_sample.t # "array" THEN Throw("none")
       ELSE IF Len(SummaryChartData(d, rnd)) > 0
            THEN ChartVisualization(d, SummaryChartData(d, rnd), "summary")
            ELSE TextBranch(d, vizType)
  ELSE TextBranch(d, vizType)

\* Visualization: the plan of the sub-renderer it wraps in its <div>, or
\* NullPlan where it returns null; rnd are the values of Math.random()
Visualization(d, rows, rnd) ==
  IF d.t # "object" THEN NullPlan
  ELSE
    LET vizType == Or(d.type, Str("text"))
        xColumn == Or(d.x_column, d.spec.x_column)
        yColumn == Or(d.y_column, d.spec.y_column)
    IN IF vizType = Str("image") \/ Truthy(d.image) THEN ImageVisualization(d)
       ELSE IF vizType = Str("chart")
                 \/ (Truthy(d.chart_type) /\ Truthy(rows) /\ Len(rows.items) > 0)
       THEN IF Truthy(xColumn) /\ Truthy(yColumn) /\ Truthy(rows)
            THEN IF \E i \in 1..Len(rows.items) : rows.items[i].t = "null"
                 THEN Throw("none")
                 ELSE IF Len(RowsChartData(rows.items, xColumn, yColumn)) > 0
                      THEN ChartVisualization(
                             d, RowsChartData(rows.items, xColumn, yColumn), "rows")
                      ELSE SummaryBranch(d, vizType, rnd)
            ELSE SummaryBranch(d, vizType, rnd)
       ELSE TextBranch(d, vizType)

(***************************************************************************)
(* Message content.  A string content is a sequence of tokens [k, v]:      *)
(* "str" (a JSON string literal whose text is v), "num" (a JSON number),   *)
(* "null", "p" (one punctuation character), "ws" (white space) and "text"  *)
(* (prose without braces).  A non-string content (the structured content   *)
(* sequence) has t = "array".                                              *)
(***************************************************************************)
S(x) == [k |-> "str", v |-> x]
N(x) == [k |-> "num", v |-> x]
P(x) == [k |-> "p", v |-> x]
Ws == [k |-> "ws", v |-> " "]
Prose == [k |-> "text", v |-> "see"]
NullTok == [k |-> "null", v |-> "null"]
LB == P("{")
RB == P("}")
Colon == P(":")
Comma == P(",")

\* the first index >= i that holds no white space (Len + 1 at the end)
SkipWs(toks, i) ==
  LET rest == {j \in i..(Len(toks) + 1) : j = Len(toks) + 1 \/ toks[j] # Ws}
  IN CHOOSE j \in rest : \A k \in rest : j <= k

\* a brace scan that balances braces to any depth
RECURSIVE ScanBracesAnyDepth(_, _, _)
ScanBracesAnyDepth(toks, j, depth) ==
  IF j > Len(toks) THEN 0
  ELSE IF toks[j] = LB THEN ScanBracesAnyDepth(toks, j + 1, depth + 1)
  ELSE IF toks[j] = RB
       THEN IF depth > 1 THEN ScanBracesAnyDepth(toks, j + 1, depth - 1) ELSE j
  ELSE ScanBracesAnyDepth(toks, j + 1, depth)

\* [^{}]*(?:\{[^{}]*\}[^{}]*)*\}  from index j, inside the opening brace
\* (depth 1) or inside a nested one (depth 2): the index of the closing
\* brace, or 0 when the text does not match
RECURSIVE ScanBraces(_, _, _)
ScanBraces(toks, j, depth) ==
  IF j > Len(toks) THEN 0
  ELSE IF toks[j] = LB
       THEN IF depth = 1 THEN ScanBraces(toks, j + 1, 2) ELSE 0
  ELSE IF toks[j] = RB
       THEN IF depth = 2 THEN ScanBraces(toks, j + 1, 1) ELSE j
  ELSE ScanBraces(toks, j + 1, depth)

\* the end of a match of the regular expression that starts at index i, or 0
MatchEnd(toks, i) ==
  IF toks[i] # S("visualization") THEN 0
  ELSE LET c == SkipWs(toks, i + 1)
       IN IF c > Len(toks) \/ toks[c] # Colon THEN 0
          ELSE LET b == SkipWs(toks, c + 1)
               IN IF b > Len(toks) \/ toks[b] # LB THEN 0
                  ELSE ScanBraces(toks, b + 1, 1)

\* content.match(...): the leftmost match, <<>> for null
Match(toks) ==
  LET starts == {i \in 1..Len(toks) : MatchEnd(toks, i) # 0}
  IN IF starts = {} THEN <<>>
     ELSE LET i == CHOOSE i \in starts : \A k \in starts : i <= k
          IN SubSeq(toks, i, MatchEnd(toks, i))

(***************************************************************************)
(* JSON.parse.  A parsed value is [t, n, s, m]: a scalar, an object (m:    *)
(* its members [key, val] in order) or an array (m: its items).            *)
(***************************************************************************)
PV(sc) == [t |-> sc.t, n |-> sc.n, s |-> sc.s, m |-> <<>>]
PVObject(members) == [t |-> "object", n |-> 0, s |-> "", m |-> members]
PVArray(items) == [t |-> "array", n |-> 0, s |-> "", m |-> items]
ParseFail == [ok |-> FALSE, v |-> PV(Undef), next |-> 0]
ParseOk(v, next) == [ok |-> TRUE, v |-> v, next |-> next]

RECURSIVE ParseValue(_, _), ParseMembers(_, _, _), ParseItems(_, _, _)
\* a JSON value starting at or after index i
ParseValue(toks, i) ==
  LET j == SkipWs(toks, i)
  IN IF j > Len(toks) THEN ParseFail
     ELSE CASE toks[j].k = "str" -> ParseOk(PV(Str(toks[j].v)), j + 1)
            [] toks[j].k = "num" -> ParseOk(PV(Num(StrToNum(toks[j].v))), j + 1)
            [] toks[j].k = "null" -> ParseOk(PV(Null), j + 1)
            [] toks[j] = LB ->
                 IF SkipWs(toks, j + 1) <= Len(toks) /\ toks[SkipWs(toks, j + 1)] = RB
                 THEN ParseOk(PVObject(<<>>), SkipWs(toks, j + 1) + 1)
                 ELSE ParseMembers(toks, j + 1, <<>>)
            [] toks[j] = P("[") ->
                 IF SkipWs(toks, j + 1) <= Len(toks) /\ toks[SkipWs(toks, j + 1)] = P("]")
                 THEN ParseOk(PVArray(<<>>), SkipWs(toks, j + 1) + 1)
                 ELSE ParseItems(toks, j + 1, <<>>)
            [] OTHER -> ParseFail

\* the members of an object from index i (a key must come next), acc the
\* members before
ParseMembers(toks, i, acc) ==
  LET j == SkipWs(toks, i)
  IN IF j > Len(toks) \/ toks[j].k # "str" THEN ParseFail
     ELSE LET c == SkipWs(toks, j + 1)
          IN IF c > Len(toks) \/ toks[c] # Colon THEN ParseFail
             ELSE LET r == ParseValue(toks, c + 1)
                      e == SkipWs(toks, r.next)
                      got == Append(acc, [key |-> toks[j].v, val |-> r.v])
                  IN IF ~r.ok \/ e > Len(toks) THEN ParseFail
                     ELSE IF toks[e] = RB THEN ParseOk(PVObject(got), e + 1)
                     ELSE IF toks[e] = Comma THEN ParseMembers(toks, e + 1, got)
                     ELSE ParseFail

\* the items of an array from index i (a value must come next)
ParseItems(toks, i, acc) ==
  LET r == ParseValue(toks, i)
      e == SkipWs(toks, r.next)
      got == Append(acc, r.v)
  IN IF ~r.ok \/ e > Len(toks) THEN ParseFail
     ELSE IF toks[e] = P("]") THEN ParseOk(PVArray(got), e + 1)
     ELSE IF toks[e] = Comma THEN ParseItems(toks, e + 1, got)
     ELSE ParseFail

\* JSON.parse(text): the whole text must be one value
JsonParse(toks) ==
  LET r == ParseValue(toks, 1)
  IN IF r.ok /\ SkipWs(toks, r.next) = Len(toks) + 1 THEN r ELSE ParseFail

\* obj.key on a parsed value: the last member of that name
Field(pv, key) ==
  LET hits == IF pv.t = "object"
              THEN {i \in 1..Len(pv.m) : pv.m[i].key = key} ELSE {}
  IN IF hits = {} THEN PV(Undef)
     ELSE pv.m[CHOOSE i \in hits : \A k \in hits : k <= i].val

\* parsed values as the records of this model
ToScalar(pv) ==
  IF pv.t = "array" THEN Obj ELSE [t |-> pv.t, n |-> pv.n, s |-> pv.s]
ToSpec(pv) ==
  [t |-> pv.t,
   chart_type |-> ToScalar(Field(pv, "chart_type")),
   x_column |-> ToScalar(Field(pv, "x_column")),
   y_column |-> ToScalar(Field(pv, "y_column")),
   title |-> ToScalar(Field(pv, "title"))]
ToSample(pv) ==
  IF pv.t = "array" THEN Sample([i \in 1..Len(pv.m) |-> ToScalar(pv.m[i])])
  ELSE IF Truthy(pv) THEN [NoSample EXCEPT !.t = "object"]
  ELSE NoSample
ToRange(pv) ==
  IF pv.t = "array"
  THEN Range(IF Len(pv.m) >= 1 THEN ToScalar(pv.m[1]) ELSE Undef,
             IF Len(pv.m) >= 2 THEN ToScalar(pv.m[2]) ELSE Undef)
  ELSE IF Truthy(pv) THEN [NoRange EXCEPT !.t = "object"]
  ELSE NoRange
ToSummary(pv) ==
  [t |-> pv.t,
   x_data_sample |-> ToSample(Field(pv, "x_data_sample")),
   y_range |-> ToRange(Field(pv, "y_range")),
   y_average |-> ToScalar(Field(pv, "y_average")),
   row_count |-> ToScalar(Field(pv, "row_count"))]
ToViz(pv) ==
  [t |-> pv.t,
   type |-> ToScalar(Field(pv, "type")),
   chart_type |-> ToScalar(Field(pv, "chart_type")),
   x_column |-> ToScalar(Field(pv, "x_column")),
   y_column |-> ToScalar(Field(pv, "y_column")),
   title |-> ToScalar(Field(pv, "title")),
   text |-> ToScalar(Field(pv, "text")),
   spec |-> ToSpec(Field(pv, "spec")),
   data_summary |-> ToSummary(Field(pv, "data_summary")),
   image |-> ToScalar(Field(pv, "image")),
   mimeType |-> ToScalar(Field(pv, "mimeType"))]

(***************************************************************************)
(* extractVisualizationData                                                *)
(***************************************************************************)
\* the agent state: absent parts read as undefined through ?.
NoState ==
  [t |-> "undefined",
   final_response |->
     [t |-> "undefined", visualization |-> NoViz,
      sql |-> [t |-> "undefined", result |-> NoRows]],
   visualization |-> NoViz,
   guarded_visualization |-> NoViz,
   sql_result |-> NoRows]

\* Array.isArray(sqlResult) ? sqlResult : undefined
ArrayOrUndefined(r) == IF r.t = "array" THEN r ELSE NoRows

\* state?.final_response?.sql?.result || state?.sql_result
StateSqlResult(st) == Or(st.final_response.sql.result, st.sql_result)

\* the three locations tried in the opposite order
StateVizGuardedFirst(st) ==
  Or(Or(st.guarded_visualization, st.visualization),
     st.final_response.visualization)

\* state?.final_response?.visualization || state?.visualization ||
\* state?.guarded_visualization
StateViz(st) ==
  Or(Or(st.final_response.visualization, st.visualization),
     st.guarded_visualization)

\* the descriptor built from the state's visualization
StateDescriptor(v) ==
  [t |-> "object",
   type |-> Or(v.type, Str("chart")),
   chart_type |-> Or(Or(v.spec.chart_type, v.chart_type), Str("bar")),
   x_column |-> Or(v.spec.x_column, v.x_column),
   y_column |-> Or(v.spec.y_column, v.y_column),
   title |-> Or(Or(v.title, v.spec.title), Str("Chart")),
   spec |-> v.spec,
   data_summary |-> v.data_summary,
   image |-> v.image,
   mimeType |-> v.mimeType,
   text |-> v.text]

\* the descriptor built from the visualization parsed out of content
ContentDescriptor(v) ==
  [t |-> "object",
   type |-> Or(v.type, Str("chart")),
   chart_type |-> Or(Or(v.spec.chart_type, v.chart_type), Str("bar")),
   x_column |-> Or(v.spec.x_column, v.x_column),
   y_column |-> Or(v.spec.y_column, v.y_column),
   title |-> Or(Or(v.title, v.spec.title), Str("Chart")),
   spec |-> v.spec,
   data_summary |-> v.data_summary,
   text |-> v.text,
   image |-> v.image,
   mimeType |-> v.mimeType]

\* the fallback descriptor
DefaultDescriptor ==
  [EmptyViz EXCEPT !.type = Str("chart"), !.chart_type = Str("bar"),
                   !.title = Str("Chart")]

\* step 2: the visualization embedded in a string content, or NoViz when
\* the content is no string, nothing matches, or JSON.parse throws
ContentViz(c) ==
  IF c.t # "string" \/ Match(c.toks) = <<>> THEN NoViz
  ELSE LET parsed == JsonParse(<<LB>> \o Match(c.toks) \o <<RB>>)
       IN IF parsed.ok THEN ToViz(Field(parsed.v, "visualization")) ELSE NoViz

extractVisualizationData(c, st) ==
  IF Truthy(StateViz(st))
  THEN [visualization |-> StateDescriptor(StateViz(st)),
        sqlResult |-> ArrayOrUndefined(StateSqlResult(st))]
  ELSE IF Truthy(ContentViz(c))
  THEN [visualization |-> ContentDescriptor(ContentViz(c)),
        sqlResult |-> NoRows]
  ELSE [visualization |-> DefaultDescriptor,
        sqlResult |-> ArrayOrUndefined(StateSqlResult(st))]

(***************************************************************************)
(* Inputs.                                                                 *)
(***************************************************************************)
\* all sequences over set of length at most n
SeqsUpTo(set, n) == UNION {[1..k -> set] : k \in 0..n}

\* result rows: columns a and b, with null, missing, numeric, numeric-string
\* and non-numeric cells, and the null element
RowValues ==
  {Row([a |-> Str("A"), b |-> Num(5)]), Row([a |-> Str("A"), b |-> Str("7")]),
   Row([a |-> Str("A"), b |-> Str("abc")]), Row([a |-> Num(0), b |-> Num(5)]),
   Row([a |-> Null, b |-> Num(5)]), Row([a |-> Str("A"), b |-> Undef]),
   NullRow}
RowSets == {NoRows} \cup {Rows(rs) : rs \in SeqsUpTo(RowValues, MaxRows)}
FewRowSets ==
  {NoRows, Rows(<<>>), Rows(<<Row([a |-> Null, b |-> Num(5)])>>),
   Rows(<<Row([a |-> Str("A"), b |-> Num(5)])>>)}

\* where the two column names come from: top-level fields, spec, an empty
\* top-level field with a spec fallback, one column for both axes, or one
\* of them unresolved
ColumnChoices ==
  {[x |-> Str("a"), y |-> Str("b"), sx |-> Undef, sy |-> Undef],
   [x |-> Undef, y |-> Undef, sx |-> Str("a"), sy |-> Str("b")],
   [x |-> Str(""), y |-> Str("b"), sx |-> Str("a"), sy |-> Str("a")],
   [x |-> Str("a"), y |-> Str("a"), sx |-> Undef, sy |-> Undef],
   [x |-> Undef, y |-> Str("b"), sx |-> Undef, sy |-> Undef],
   [x |-> Str("a"), y |-> Undef, sx |-> Undef, sy |-> Undef],
   [x |-> Undef, y |-> Undef, sx |-> Undef, sy |-> Undef]}

WithColumns(v, c) ==
  [v EXCEPT !.x_column = c.x, !.y_column = c.y,
            !.spec = IF c.sx = Undef /\ c.sy = Undef THEN @
                     ELSE [@ EXCEPT !.t = "object", !.x_column = c.sx,
                                    !.y_column = c.sy]]

\* descriptors for the image path
ImageDescriptors ==
  {[EmptyViz EXCEPT !.type = ty, !.image = im, !.mimeType = mt, !.text = tx,
                    !.chart_type = ct] :
     ty \in {Undef, Str("text"), Str("chart"), Str("image")},
     im \in {Undef, Str(""), Str("abc"), Str("dat"), Str("data:image/gif;base64,abc"),
             Num(5), Obj},
     mt \in {Undef, Str(""), Str("image/jpeg")},
     tx \in {Undef, Str("txt")},
     ct \in {Undef, Str("bar")}}

\* descriptors for the chart path over result rows
ChartDescriptors ==
  {WithColumns([EmptyViz EXCEPT !.type = ty, !.chart_type = ct, !.text = tx], c) :
     ty \in {Undef, Str("chart"), Str("text")},
     ct \in {Undef, Str("bar"), Str("pie"), Str("radar")},
     tx \in {Undef, Str("txt")},
     c \in ColumnChoices}

\* data summaries for the summary fallback
Samples ==
  {NoSample, [NoSample EXCEPT !.t = "object"]}
  \cup {Sample(xs) : xs \in SeqsUpTo({Num(1), Str("Jan")}, MaxSample)}
Ranges ==
  {NoRange, Range(Num(0), Num(10)), Range(Num(10), Num(30)),
   Range(Str("lo"), Num(10)), [NoRange EXCEPT !.t = "object"]}
Summaries ==
  {NoSummary}
  \cup {[t |-> "object", x_data_sample |-> xs, y_range |-> yr, y_average |-> ya,
         row_count |-> Undef] :
          xs \in Samples, yr \in Ranges, ya \in {Undef, Num(0), Num(5), Num(20)}}
SummaryDescriptors ==
  {[EmptyViz EXCEPT !.type = Str("chart"), !.chart_type = ct, !.text = tx,
                    !.x_column = c.x, !.y_column = c.y, !.data_summary = ds] :
     ct \in {Undef, Str("pie")},
     tx \in {Undef, Str("txt")},
     c \in {[x |-> Undef, y |-> Undef], [x |-> Str("a"), y |-> Str("b")]},
     ds \in Summaries}

\* visualization objects an agent stores in its state
VizA ==
  [EmptyViz EXCEPT !.type = Str("chart"), !.chart_type = Str("line"),
                   !.x_column = Str("a"), !.y_column = Str("b"),
                   !.title = Str("Revenue")]
VizB == [EmptyViz EXCEPT !.type = Str("text"), !.text = Str("txt")]
VizC ==
  [EmptyViz EXCEPT !.type = Str("image"), !.image = Str("abc"),
                   !.mimeType = Str("image/jpeg"), !.title = Str("Img")]

\* the four fields that spec duplicates, with the values used for them
SpecFields == {"chart_type", "x_column", "y_column", "title"}
TopValue(f) ==
  CASE f = "chart_type" -> Str("line") [] f = "x_column" -> Str("a")
    [] f = "y_column" -> Str("b") [] OTHER -> Str("T")
SpecValue(f) ==
  CASE f = "chart_type" -> Str("pie") [] f = "x_column" -> Str("b")
    [] f = "y_column" -> Str("a") [] OTHER -> Str("S")

\* objects that set one of those fields at the top level, in spec, or both
FieldVizzes ==
  {[EmptyViz EXCEPT ![f] = IF top = "set" THEN TopValue(f)
                           ELSE IF top = "empty" THEN Str("")
                           ELSE Undef,
                    !.spec = IF sp = "absent" THEN NoSpec
                             ELSE [NoSpec EXCEPT !.t = "object",
                                     ![f] = IF sp = "set" THEN SpecValue(f)
                                            ELSE IF sp = "empty" THEN Str("")
                                            ELSE Undef]] :
     f \in SpecFields,
     top \in {"unset", "empty", "set"},
     sp \in {"absent", "unset", "empty", "set"}}
  \cup {[EmptyViz EXCEPT
           !.type = Str("chart"), !.chart_type = Str("line"),
           !.x_column = Str("a"), !.y_column = Str("b"), !.title = Str("T"),
           !.spec = [t |-> "object", chart_type |-> Str("pie"),
                     x_column |-> Str("b"), y_column |-> Str("a"),
                     title |-> Str("S")]]}

State(frv, v, gv, frr, sr) ==
  [t |-> "object",
   final_response |->
     [t |-> "object", visualization |-> frv,
      sql |-> [t |-> "object", result |-> frr]],
   visualization |-> v,
   guarded_visualization |-> gv,
   sql_result |-> sr]

RowsOne == Rows(<<Row([a |-> Str("A"), b |-> Num(5)])>>)
RowsTwo == Rows(<<Row([a |-> Str("A"), b |-> Str("7")]), Row([a |-> Num(0), b |-> Num(5)])>>)
SqlChoices ==
  {[frr |-> x, sr |-> y] :
     x \in {NoRows, RowsOne, Rows(<<>>), NotRows("object"), NotRows("null")},
     y \in {NoRows, RowsTwo, NotRows("object")}}

\* states that differ in which locations hold a visualization
PrecedenceStates ==
  {State(frv, v, gv, q.frr, q.sr) :
     frv \in {NoViz, NullViz, EmptyViz, VizA, VizB},
     v \in {NoViz, NullViz, VizA, VizB, VizC},
     gv \in {NoViz, VizB, VizC},
     q \in SqlChoices}

\* states that hold one visualization, in any of the three locations
FieldStates ==
  {State(IF at = 1 THEN v ELSE NoViz, IF at = 2 THEN v ELSE NoViz,
         IF at = 3 THEN v ELSE NoViz, NoRows, RowsTwo) :
     at \in 1..3, v \in FieldVizzes}

\* states that hold no visualization
EmptyStates ==
  {NoState} \cup {State(NoViz, NullViz, NoViz, q.frr, q.sr) : q \in SqlChoices}

(***************************************************************************)
(* Contents: JSON.stringify of a visualization object, embedded in prose,  *)
(* and fragments that do not match or do not parse.                        *)
(***************************************************************************)
ScalarToks(sc) ==
  CASE sc.t = "string" -> <<S(sc.s)>>
    [] sc.t = "number" -> <<N(String(sc))>>
    [] OTHER -> <<NullTok>>

\* the members of obj named in keys (a sequence) that are defined, each
\* preceded by a comma except the first; first says whether one is still due
RECURSIVE MemberToks(_, _, _)
MemberToks(obj, keys, first) ==
  IF keys = <<>> THEN <<>>
  ELSE IF obj[Head(keys)].t = "undefined" THEN MemberToks(obj, Tail(keys), first)
  ELSE (IF first THEN <<>> ELSE <<Comma>>)
         \o <<S(Head(keys)), Colon>> \o ScalarToks(obj[Head(keys)])
         \o MemberToks(obj, Tail(keys), FALSE)

SpecKeys == <<"chart_type", "x_column", "y_column", "title">>
VizKeys ==
  <<"type", "chart_type", "x_column", "y_column", "title", "text", "image",
    "mimeType">>

\* "visualization": { ... } for object v (its data_summary is not written)
Stringify(v) ==
  LET own == MemberToks(v, VizKeys, TRUE)
      sp == IF v.spec.t # "object" THEN <<>>
            ELSE (IF own = <<>> THEN <<>> ELSE <<Comma>>)
                   \o <<S("spec"), Colon, LB>> \o MemberToks(v.spec, SpecKeys, TRUE)
                   \o <<RB>>
  IN <<S("visualization"), Colon, Ws, LB>> \o own \o sp \o <<RB>>

Text(toks) == [t |-> "string", toks |-> toks]
Pad(k) == [i \in 1..k |-> Prose]

\* contents that embed a visualization the extractor can parse
GoodContents ==
  {Text(Pad(k) \o Stringify(v) \o tail) :
     k \in 0..MaxPad,
     v \in FieldVizzes \cup {EmptyViz, VizA, VizB, VizC},
     tail \in {<<>>, <<Prose, RB>>}}
  \cup {Text(<<LB>> \o Stringify(VizB) \o <<Comma, S("visualization"), Colon, LB,
                 S("title"), Colon, S("Second"), RB, RB>>),
        Text(<<S("visualization"), Colon, LB, S("type"), Colon, S("chart"), Comma,
               S("data_summary"), Colon, LB, S("x_data_sample"), Colon, P("["),
               N("5"), Comma, S("Jan"), P("]"), Comma, S("y_range"), Colon, P("["),
               N("0"), Comma, N("7"), P("]"), Comma, S("y_average"), Colon, N("5"),
               RB, RB>>)}

\* contents without a fragment that both matches and parses
BadContents ==
  {Text(<<>>), Text(<<Prose>>),
   \* no colon, no brace, unclosed brace
   Text(<<S("visualization"), LB, RB>>),
   Text(<<S("visualization"), Colon, S("chart")>>),
   Text(<<S("visualization"), Colon, LB, S("title"), Colon, S("T")>>),
   \* nested two levels deep: the regular expression does not match
   Text(<<S("visualization"), Colon, LB, S("spec"), Colon, LB, S("title"), Colon,
          LB, RB, RB, RB>>),
   \* matches, and JSON.parse throws: a trailing comma, prose, a bare key
   Text(<<S("visualization"), Colon, LB, S("title"), Colon, S("T"), Comma, RB>>),
   Text(<<S("visualization"), Colon, LB, Prose, RB>>),
   Text(<<Prose, S("visualization"), Colon, LB, S("title"), RB, Prose>>),
   \* a structured content sequence, not a string
   [t |-> "array", toks |-> <<>>],
   [t |-> "array", toks |-> Stringify(VizA)]}

FewContents ==
  {Text(<<>>), Text(Stringify(VizA)), Text(Stringify(VizC)),
   Text(<<S("visualization"), Colon, LB, Prose, RB>>),
   [t |-> "array", toks |-> Stringify(VizA)]}

(***************************************************************************)
(* The state machine: a message is extracted and then rendered (caller =   *)
(* "pipeline"), or a caller renders a descriptor and rows of its own       *)
(* (caller = "direct").                                                    *)
(***************************************************************************)
\* what the message pipeline hands to the extractor
InitMessage ==
  /\ caller = "pipeline"
  /\ pc = "message"
  /\ data = NoViz
  /\ sqlResult = NoRows
  /\ \/ content \in FewContents /\ state \in PrecedenceStates
     \/ content \in FewContents /\ state \in FieldStates
     \/ content \in GoodContents \cup BadContents /\ state \in EmptyStates

\* what a caller may hand to Visualization
InitProps ==
  /\ caller = "direct"
  /\ pc = "props"
  /\ content = Text(<<>>)
  /\ state = NoState
  /\ \/ data \in ImageDescriptors /\ sqlResult \in FewRowSets
     \/ data \in ChartDescriptors /\ sqlResult \in RowSets
     \/ data \in SummaryDescriptors /\ sqlResult \in FewRowSets
     \/ data \in {NoViz, NullViz} /\ sqlResult = NoRows

Init == plan = NullPlan /\ (InitMessage \/ InitProps)

\* extractVisualizationData(content, state)
Extract ==
  /\ pc = "message"
  /\ data' = extractVisualizationData(content, state).visualization
  /\ sqlResult' = extractVisualizationData(content, state).sqlResult
  /\ pc' = "extracted"
  /\ UNCHANGED <<caller, content, state, plan>>

\* the values Math.random() returns, in tenths
RandomTenths == {0, 5, 9}

\* <Visualization data={data} sqlResult={sqlResult} />
Render ==
  /\ pc \in {"extracted", "props"}
  /\ \E rnd \in [1..Len(data.data_summary.x_data_sample.items) -> RandomTenths] :
       plan' = Visualization(data, sqlResult, rnd)
  /\ pc' = "rendered"
  /\ UNCHANGED <<caller, content, state, data, sqlResult>>

Next == Extract \/ Render

Spec == Init /\ [][Next]_vars

(***************************************************************************)
(* Properties.                                                             *)
(***************************************************************************)
Extracted == caller = "pipeline" /\ pc \in {"extracted", "rendered"}
Rendered == pc = "rendered"

\* the three state locations, in the order the extractor looks at them
Locations ==
  <<state.final_response.visualization, state.visualization,
    state.guarded_visualization>>
Holding == {i \in 1..3 : Locations[i].t = "object"}
\* the visualization of the first location that holds one
Highest == Locations[CHOOSE i \in Holding : \A k \in Holding : i <= k]

\* the object the extractor found: in state, else embedded in content
Found == IF Holding # {} THEN Highest ELSE ContentViz(content)

NonEmpty(v) == v.t = "string" /\ v.s # ""
Absent(v) == v.t = "undefined" \/ (v.t = "string" /\ v.s = "")

\* C1: when the visualization object found (in state or in embedded JSON)
\* carries a non-empty top-level value and a different non-empty spec value
\* for chart_type, x_column, y_column or title, the extracted field is the
\* top-level value; the spec value is used only when the top-level value is
\* absent, and the default only when both are absent.
C1_TopLevelWins ==
  (Extracted /\ Found.t = "object") =>
    \A f \in SpecFields :
      /\ (NonEmpty(Found[f]) /\ NonEmpty(Found.spec[f]) /\ Found[f] # Found.spec[f])
           => data[f] = Found[f]
      /\ (Absent(Found[f]) /\ NonEmpty(Found.spec[f])) => data[f] = Found.spec[f]
      /\ (Absent(Found[f]) /\ Absent(Found.spec[f]) /\ f = "chart_type")
           => data[f] = Str("bar")
      /\ (Absent(Found[f]) /\ Absent(Found.spec[f]) /\ f = "title")
           => data[f] = Str("Chart")

\* the column names the chart path resolves (top-level value, else spec)
XColumn == IF NonEmpty(data.x_column) THEN data.x_column ELSE data.spec.x_column
YColumn == IF NonEmpty(data.y_column) THEN data.y_column ELSE data.spec.y_column
Cell(row, col) == IF col.s \in DOMAIN row.f THEN row.f[col.s] ELSE Undef
HasCell(row, col) == Cell(row, col).t \notin {"null", "undefined"}

\* authoritative-row resolution yields no rows: a column is unresolved, rows
\* are absent, or every row lacks its x or its y value
NoAuthoritativeRows ==
  \/ ~NonEmpty(XColumn)
  \/ ~NonEmpty(YColumn)
  \/ sqlResult.t # "array"
  \/ \A i \in 1..Len(sqlResult.items) :
       /\ sqlResult.items[i].t = "object"
       /\ ~(HasCell(sqlResult.items[i], XColumn) /\ HasCell(sqlResult.items[i], YColumn))

\* summary reconstruction yields no rows: x_data_sample is absent or empty
NoSummaryRows ==
  \/ data.data_summary.x_data_sample.t = "undefined"
  \/ /\ data.data_summary.x_data_sample.t = "array"
     /\ data.data_summary.x_data_sample.items = <<>>

ChartWithoutRows ==
  /\ Rendered
  /\ data.t = "object"
  /\ data.type = Str("chart")
  /\ Absent(data.image)
  /\ NoAuthoritativeRows
  /\ NoSummaryRows

\* C2 as claimed: a chart descriptor without image whose two fallbacks
\* yield no rows renders nothing and invokes no sub-renderer.
C2_NullPlanWithoutRows ==
  ChartWithoutRows => (plan.renderer = "none" /\ plan.out = "null")

\* C2, amended: such a descriptor draws no chart and no image; it renders
\* nothing and invokes no sub-renderer unless its text is non-empty, and
\* then the text sub-renderer alone runs and shows that text.
C2_NoChartWithoutRows ==
  ChartWithoutRows =>
    IF NonEmpty(data.text)
    THEN plan.renderer = "text" /\ plan.out = "text" /\ plan.text = data.text
    ELSE plan.renderer = "none" /\ plan.out = "null"

\* C2 witness: both columns resolved, two rows, each filtered out, no
\* summary, no text: nothing is rendered
C2_Witness ==
  /\ ChartWithoutRows
  /\ NonEmpty(XColumn) /\ NonEmpty(YColumn)
  /\ sqlResult.t = "array" /\ Len(sqlResult.items) = 2
  /\ Absent(data.text)
  /\ plan = NullPlan

\* C3: neither extractVisualizationData nor Visualization ever raises an
\* exception, whatever the state, content, descriptor and rows.
C3_NeverThrows == plan.out # "throw"

\* C4: on the structured-state path and on the default path the rows are
\* state.final_response.sql.result when that is a sequence, otherwise
\* state.sql_result when that is a sequence, and undefined otherwise.
C4_RowsFromEitherSequence ==
  (Extracted /\ (Holding # {} \/ content \in BadContents)) =>
    sqlResult = IF state.final_response.sql.result.t = "array"
                THEN state.final_response.sql.result
                ELSE IF state.sql_result.t = "array" THEN state.sql_result
                ELSE NoRows

\* contents to compare an extraction against: parseable, unparseable,
\* unmatched and non-string ones
Contents == FewContents \cup BadContents

\* C5: the source is picked by strict precedence without merging:
\* final_response.visualization, else visualization, else
\* guarded_visualization, else the JSON embedded in a string content, else
\* the default.  When a state location holds a visualization every field of
\* the descriptor comes from the highest one that does, and the result is
\* the same for every content.
C5_StrictPrecedence ==
  Extracted =>
    /\ data.text = Found.text
    /\ data.image = Found.image
    /\ data.mimeType = Found.mimeType
    /\ data.spec = Found.spec
    /\ data.data_summary = Found.data_summary
    /\ data.type \in {Found.type, Str("chart")}
    /\ data.chart_type \in {Found.chart_type, Found.spec.chart_type, Str("bar")}
    /\ data.x_column \in {Found.x_column, Found.spec.x_column}
    /\ data.y_column \in {Found.y_column, Found.spec.y_column}
    /\ data.title \in {Found.title, Found.spec.title, Str("Chart")}
    /\ Holding # {} =>
         \A c \in Contents :
           /\ extractVisualizationData(c, state).visualization = data
           /\ extractVisualizationData(c, state).sqlResult = sqlResult

\* C5 witness: final_response.visualization is null, visualization and
\* guarded_visualization both hold one, and so does content
C5_Witness ==
  /\ Extracted
  /\ state.final_response.visualization = NullViz
  /\ state.visualization = VizA
  /\ state.guarded_visualization = VizC
  /\ content = Text(Stringify(VizC))
  /\ data.title = Str("Revenue")
  /\ data.image = Undef

\* C6: a descriptor whose image is non-empty takes the image path whatever
\* its type and rows; the URL is the image unchanged when it starts with
\* "data:", else "data:" + (mimeType or image/png) + ";base64," + image.
C6_ImagePrecedence ==
  (Rendered /\ data.t = "object" /\ NonEmpty(data.image)) =>
    /\ plan.renderer = "image"
    /\ plan.out = "image"
    /\ plan.url =
         IF Len(data.image.s) >= 5 /\ SubSeq(data.image.s, 1, 5) = "data:"
         THEN data.image.s
         ELSE "data:"
                \o (IF Absent(data.mimeType) THEN "image/png" ELSE data.mimeType.s)
                \o ";base64," \o data.image.s

\* C6 witness: type text with text, chart_type and rows, and a raw image
C6_Witness ==
  /\ Rendered
  /\ data.type = Str("text")
  /\ data.image = Str("abc")
  /\ data.mimeType = Str("image/jpeg")
  /\ NonEmpty(data.text)
  /\ NonEmpty(data.chart_type)
  /\ sqlResult.t = "array" /\ Len(sqlResult.items) > 0
  /\ plan.url = "data:image/jpeg;base64,abc"

\* C7: the extractor always returns a descriptor; when no state location
\* holds a visualization and content holds no parseable embedded one, it is
\* exactly {type: chart, chart_type: bar, title: "Chart"}, and with empty
\* state that descriptor and undefined rows render nothing.
C7_DefaultDescriptor ==
  Extracted =>
    /\ data.t = "object"
    /\ (Holding = {} /\ content \in BadContents) =>
         data = [EmptyViz EXCEPT !.type = Str("chart"), !.chart_type = Str("bar"),
                                 !.title = Str("Chart")]
    /\ (Rendered /\ state = NoState /\ content \in BadContents) =>
         (sqlResult = NoRows /\ plan.renderer = "none" /\ plan.out = "null")

\* C7 witness: empty state and a fragment with a trailing comma
C7_Witness ==
  /\ Extracted
  /\ Rendered
  /\ state = NoState
  /\ content = Text(<<S("visualization"), Colon, LB, S("title"), Colon, S("T"),
                      Comma, RB>>)
  /\ data.title = Str("Chart")
  /\ plan = NullPlan

\* the rows that have both an x and a y value, in input order
KeptRows ==
  SelectSeq(sqlResult.items, LAMBDA row : HasCell(row, XColumn) /\ HasCell(row, YColumn))

\* a y value as a number, 0 when it does not denote one
Coerced(v) ==
  IF v.t = "number" THEN v
  ELSE IF v.t = "string" /\ v.s \in NumericStrings THEN Num(StrToNum(v.s))
  ELSE Num(0)

\* the chart path over supplied rows, with both columns resolved
ChartOverRows ==
  /\ Rendered
  /\ data.t = "object"
  /\ data.type # Str("image") /\ Absent(data.image)
  /\ \/ data.type = Str("chart")
     \/ NonEmpty(data.chart_type) /\ sqlResult.t = "array" /\ sqlResult.items # <<>>
  /\ NonEmpty(XColumn) /\ NonEmpty(YColumn)
  /\ sqlResult.t = "array"
  /\ \A i \in 1..Len(sqlResult.items) : sqlResult.items[i].t = "object"
  /\ plan.out # "throw"

PointsFollowRows ==
  KeptRows # <<>> =>
    /\ plan.renderer = "chart"
    /\ plan.source = "rows"
    /\ Len(plan.chartData) = Len(KeptRows)
    /\ \A i \in 1..Len(KeptRows) :
         /\ plan.chartData[i][XColumn.s] = Cell(KeptRows[i], XColumn)
         /\ plan.chartData[i][YColumn.s] = Coerced(Cell(KeptRows[i], YColumn))

\* C8 as claimed: on the chart path with both columns resolved and rows
\* supplied, the chart data has one point per row whose x and y are both
\* non-null, in input order, with the raw x value and the y value coerced to
\* a number (0 when it is not one); the summary is not used when a point
\* survives.
C8_PointPerRow == ChartOverRows => PointsFollowRows

\* C8, amended: the same, when x_column and y_column name different columns.
C8_PointPerRowDistinctColumns ==
  (ChartOverRows /\ XColumn # YColumn) => PointsFollowRows

\* C8 witness: a row without x is dropped, a numeric string is coerced
C8_Witness ==
  /\ ChartOverRows
  /\ XColumn = Str("a") /\ YColumn = Str("b")
  /\ sqlResult.items = <<Row([a |-> Null, b |-> Num(5)]),
                         Row([a |-> Str("A"), b |-> Str("7")])>>
  /\ plan.chartData = <<[a |-> Str("A"), b |-> Num(7)]>>

\* C9: when the chart path falls back to the summary, with a non-empty
\* x_data_sample and with y_range and y_average present, the chart has one
\* synthesized point per sample value and every y lies within
\* y_average +- 0.15 * (y_range[1] - y_range[0]).
C9_SynthesizedWithinBand ==
  LET ds == data.data_summary
      yKey == IF NonEmpty(YColumn) THEN YColumn.s ELSE "y"
  IN (/\ Rendered
      /\ plan.source = "summary"
      /\ plan.out # "throw"
      /\ ds.x_data_sample.t = "array" /\ ds.x_data_sample.items # <<>>
      /\ ds.y_range.t = "array"
      /\ ds.y_range.lo.t = "number" /\ ds.y_range.hi.t = "number"
      /\ ds.y_average.t = "number")
     => /\ Len(plan.chartData) = Len(ds.x_data_sample.items)
        /\ \A i \in 1..Len(plan.chartData) :
             LET y == plan.chartData[i][yKey]
                 width == ds.y_range.hi.n - ds.y_range.lo.n
             IN /\ y.t = "number"
                /\ 100 * (y.n - ds.y_average.n) <= 15 * width
                /\ 100 * (ds.y_average.n - y.n) <= 15 * width

\* a ?? b
Coalesce(a, b) == IF a.t \in {"null", "undefined"} THEN b ELSE a

\* C10: a pie chart has one slice per chart row, in order, without grouping;
\* each slice is {name: String(x, or "Unknown" only when x is null or
\* undefined), value: Number(y, or 0 only when y is null or undefined)}.
C10_SlicePerRow ==
  LET xKey == IF NonEmpty(XColumn) THEN XColumn.s ELSE "x"
      yKey == IF NonEmpty(YColumn) THEN YColumn.s ELSE "y"
  IN (Rendered /\ plan.out = "chart" /\ plan.chartType = Str("pie")) =>
       /\ Len(plan.pieData) = Len(plan.chartData)
       /\ \A i \in 1..Len(plan.chartData) :
            /\ plan.pieData[i].name =
                 String(Coalesce(GetProp(plan.chartData[i], xKey), Str("Unknown")))
            /\ plan.pieData[i].value =
                 Number(Coalesce(GetProp(plan.chartData[i], yKey), Num(0)))

====
